---- MODULE Spec2Model ----
(***************************************************************************)
(* User-space accessors over the kernel's XDP redirect tables:             *)
(*   aya/src/maps/xdp/dev_map.rs  (DevMap: new, len, get, iter, set)       *)
(*   aya/src/maps/xdp/xsk_map.rs  (XskMap: new, len, set)                  *)
(* One table handle (MapData) is drawn in Init; the accessor operations    *)
(* act on it and on the kernel-resident table behind it.  Values cross     *)
(* the syscall boundary as sequences of 32-bit words, so that the legacy   *)
(* (one word) and the extended (two words) layouts are distinguishable.    *)
(***************************************************************************)
EXTENDS Integers, Sequences, FiniteSets, TLC

\* ------------------------------------------------------------------ bounds
MaxEntries == 2
MaxDev == 1

\* ------------------------------------------------------- program constants
SizeOfU32 == 4
SizeOfDevmapVal == 8
SizeOfRawFd == 4

\* --------------------------------------------------------- Option / Result
None == <<>>
Some(x) == <<x>>
Ok(v) == [tag |-> "Ok", val |-> v]
Err(e) == [tag |-> "Err", val |-> e]
IsOk(r) == r.tag = "Ok"
IsErr(r, e) == r.tag = "Err" /\ r.val = e

\* ------------------------------------------------------------ input ranges
Indices == 0..MaxEntries
IfIndices == 1..MaxDev
\* descriptors the callers hold (of a loaded program, of an AF_XDP socket)
RawFds == {4}
Programs == {None} \cup {Some(fd) : fd \in RawFds}
\* update flags the callers pass: BPF_ANY and BPF_NOEXIST
FlagValues == {0, 1}
Sizes == {SizeOfU32, SizeOfDevmapVal}

VARIABLES
    FEATURES,   \* process-wide capability flags, resolved once
    data,       \* the MapData behind the accessor
    accessor,   \* "none" until new() succeeds, then "DevMap" or "XskMap"
    ktable,     \* the kernel-resident table: index -> None | Some(entry)
    iter,       \* None, or Some([start, end]): the Range behind iter()
    last,       \* the last call: operation, arguments, result, syscall issued
    lastSet,    \* history: arguments of the last successful set per index
    pc,         \* per caller: "idle", "lookup" or "update" (syscall pending)
    pending,    \* per caller: the prepared syscall of a call in flight
    seen        \* per caller: entries the pending get's index has held so far

vars == <<FEATURES, data, accessor, ktable, iter, last, lastSet, pc, pending, seen>>

Callers == {1, 2}

\* ---------------------------------------------------- helpers of maps/mod.rs
check_bounds(map, index) ==
    IF index >= map.max_entries THEN Err("OutOfBounds") ELSE Ok(None)

check_kv_size(K, V, map) ==
    IF K # map.key_size THEN Err("ShapeMismatch")
    ELSE IF V # map.value_size THEN Err("ShapeMismatch")
    ELSE Ok(None)

fd_or_err(map) ==
    IF map.fd = None THEN Err("HandleUnavailable") ELSE Ok(map.fd[1])

\* ------------------------------------------------------- the kernel's side
\* Identifier the kernel assigns to the program behind a descriptor.
KernelProgId(fd) == 100 + fd

\* The words a table of the declared value size holds for an entry.
KernelValue(map, entry) ==
    IF map.value_size = SizeOfU32 THEN <<entry.ifindex>>
    ELSE <<entry.ifindex, entry.prog_id>>

\* The caller's zeroed buffer of `size` bytes after the kernel's copy-out.  The
\* kernel copies the table's value size: a longer buffer keeps its zeroes in
\* the tail, a shorter one holds the leading words (the rest of the copy
\* lands behind the buffer).
CopyOut(words, size) ==
    [w \in 1..(size \div SizeOfU32) |-> IF w <= Len(words) THEN words[w] ELSE 0]

\* The entry the kernel stores for the words an update hands it.
KernelEntry(words) ==
    [ifindex |-> words[1],
     prog_id |-> IF Len(words) >= 2 /\ words[2] > 0 THEN KernelProgId(words[2]) ELSE 0]

Syscall(call, key, buf, value, flags) ==
    Some([call |-> call, key |-> key, buf |-> buf, value |-> value, flags |-> flags])

\* Result<Option<V>, io_error> of a lookup into a buffer of `size` bytes.
bpf_map_lookup_elem(map, table, key, size, io_fail) ==
    IF io_fail THEN Err("io_error")
    ELSE IF table[key] = None THEN Ok(None)
    ELSE Ok(Some(CopyOut(KernelValue(map, table[key][1]), size)))

\* Result<(), io_error> of an update, and the table after it.
bpf_map_update_elem(table, key, entry, io_fail) ==
    IF io_fail THEN [res |-> Err("io_error"), table |-> table]
    ELSE [res |-> Ok(None), table |-> [table EXCEPT ![key] = Some(entry)]]

Call(op, index, flags, arg, res, sys) ==
    [op |-> op, index |-> index, flags |-> flags, arg |-> arg, res |-> res, sys |-> sys]

\* ------------------------------------------------------------------ DevMap
DevMapValue(ifindex, prog_id) == [ifindex |-> ifindex, prog_id |-> prog_id]

\* DevMap::new consulting the other capability flag.
DevMapNew_CpumapFlag(map) ==
    LET kv == IF FEATURES.cpumap_prog_id
              THEN check_kv_size(SizeOfU32, SizeOfDevmapVal, map)
              ELSE check_kv_size(SizeOfU32, SizeOfU32, map)
    IN  IF ~IsOk(kv) THEN kv
        ELSE IF ~IsOk(fd_or_err(map)) THEN fd_or_err(map)
        ELSE Ok(None)

\* DevMap::new: shape check against the layout FEATURES.devmap_prog_id selects,
\* then the table descriptor.
DevMapNew(map) ==
    LET kv == IF FEATURES.devmap_prog_id
              THEN check_kv_size(SizeOfU32, SizeOfDevmapVal, map)
              ELSE check_kv_size(SizeOfU32, SizeOfU32, map)
    IN  IF ~IsOk(kv) THEN kv
        ELSE IF ~IsOk(fd_or_err(map)) THEN fd_or_err(map)
        ELSE Ok(None)

\* DevMap::len off by one.
DevMapLen_PlusOne(map) == map.max_entries + 1

\* DevMap::len
DevMapLen(map) == map.max_entries

\* The layout DevMap::get looks up: bytes of the buffer it hands the kernel.
GetLookupSize == IF FEATURES.cpumap_prog_id THEN SizeOfDevmapVal ELSE SizeOfU32

\* Decoding with the two fields of the extended layout exchanged.
GetDecode_Swapped(size, value) ==
    IF size = SizeOfDevmapVal
    THEN DevMapValue(value[2], value[1])
    ELSE DevMapValue(value[1], 0)

\* Decoding of a looked-up value by the branch get took.
GetDecode(size, value) ==
    IF size = SizeOfDevmapVal
    THEN DevMapValue(value[1], value[2])
    ELSE DevMapValue(value[1], 0)

\* The part of DevMap::get after the lookup returned `looked`.
GetFinish(size, looked) ==
    IF ~IsOk(looked) THEN Err("SyscallError")
    ELSE IF looked.val = None THEN Err("KeyNotFound")
    ELSE Ok(GetDecode(size, looked.val[1]))

\* What DevMap::get decides before its syscall: an early error, or the size
\* of the value it asks bpf_map_lookup_elem for.
GetPrepare(map, index) ==
    IF ~IsOk(check_bounds(map, index)) THEN [res |-> check_bounds(map, index), size |-> 0]
    ELSE IF ~IsOk(fd_or_err(map)) THEN [res |-> fd_or_err(map), size |-> 0]
    ELSE [res |-> Ok(None), size |-> GetLookupSize]

\* DevMap::get: the result and the syscall issued (None when there is none).
DevMapGet(map, table, index, flags, io_fail) ==
    LET prep == GetPrepare(map, index)
    IN  IF ~IsOk(prep.res)
        THEN [res |-> prep.res, sys |-> None]
        ELSE [res |-> GetFinish(prep.size,
                         bpf_map_lookup_elem(map, table, index, prep.size, io_fail)),
              sys |-> Syscall("bpf_map_lookup_elem", index, prep.size, <<>>, flags)]

\* The value DevMap::set encodes under the extended layout: the descriptor of
\* the program, or 0 (unwrap_or_default) when there is none.
SetEncode(ifindex, program) ==
    <<ifindex, IF program = None THEN 0 ELSE program[1]>>

\* set with a bounds check that lets index = max_entries through.
SetPrepare_OffByOne(map, index, ifindex, program) ==
    IF index > map.max_entries THEN [res |-> Err("OutOfBounds"), value |-> <<>>]
    ELSE IF ~IsOk(fd_or_err(map)) THEN [res |-> fd_or_err(map), value |-> <<>>]
    ELSE IF FEATURES.devmap_prog_id
    THEN [res |-> Ok(None), value |-> SetEncode(ifindex, program)]
    ELSE IF program # None
    THEN [res |-> Err("ProgIdNotSupported"), value |-> <<>>]
    ELSE [res |-> Ok(None), value |-> <<ifindex>>]

\* set that drops the program on a legacy kernel and writes the bare index.
SetPrepare_DropsProgram(map, index, ifindex, program) ==
    IF ~IsOk(check_bounds(map, index)) THEN [res |-> check_bounds(map, index), value |-> <<>>]
    ELSE IF ~IsOk(fd_or_err(map)) THEN [res |-> fd_or_err(map), value |-> <<>>]
    ELSE IF FEATURES.devmap_prog_id
    THEN [res |-> Ok(None), value |-> SetEncode(ifindex, program)]
    ELSE [res |-> Ok(None), value |-> <<ifindex>>]

\* set that consults the capability before the bounds.
SetPrepare_CapabilityFirst(map, index, ifindex, program) ==
    IF ~FEATURES.devmap_prog_id /\ program # None
    THEN [res |-> Err("ProgIdNotSupported"), value |-> <<>>]
    ELSE IF ~IsOk(check_bounds(map, index))
    THEN [res |-> check_bounds(map, index), value |-> <<>>]
    ELSE IF ~IsOk(fd_or_err(map)) THEN [res |-> fd_or_err(map), value |-> <<>>]
    ELSE IF FEATURES.devmap_prog_id
    THEN [res |-> Ok(None), value |-> SetEncode(ifindex, program)]
    ELSE [res |-> Ok(None), value |-> <<ifindex>>]

\* What DevMap::set decides before its syscall: an early error, or the
\* words to hand to bpf_map_update_elem.
SetPrepare(map, index, ifindex, program) ==
    IF ~IsOk(check_bounds(map, index)) THEN [res |-> check_bounds(map, index), value |-> <<>>]
    ELSE IF ~IsOk(fd_or_err(map)) THEN [res |-> fd_or_err(map), value |-> <<>>]
    ELSE IF FEATURES.devmap_prog_id
    THEN [res |-> Ok(None), value |-> SetEncode(ifindex, program)]
    ELSE IF program # None
    THEN [res |-> Err("ProgIdNotSupported"), value |-> <<>>]
    ELSE [res |-> Ok(None), value |-> <<ifindex>>]

\* The part of DevMap::set after the update returned `updated`.
SetFinish(updated) ==
    IF ~IsOk(updated) THEN Err("SyscallError") ELSE Ok(None)

\* DevMap::set: the result, the syscall issued, and the table afterwards.
DevMapSet(map, table, index, ifindex, program, flags, io_fail) ==
    LET prep == SetPrepare(map, index, ifindex, program)
        upd == bpf_map_update_elem(table, index, KernelEntry(prep.value), io_fail)
    IN  IF ~IsOk(prep.res)
        THEN [res |-> prep.res, sys |-> None, table |-> table]
        ELSE [res |-> SetFinish(upd.res),
              sys |-> Syscall("bpf_map_update_elem", index, Len(prep.value) * SizeOfU32,
                              prep.value, flags),
              table |-> upd.table]

\* A Range that starts at 1.
IterRange_FromOne(map) == [start |-> 1, end |-> map.max_entries]

\* The Range 0..self.len() behind DevMap::iter.
IterRange(map) == [start |-> 0, end |-> DevMapLen(map)]

\* ------------------------------------------------------------------ XskMap
XskMapNew(map) ==
    LET kv == check_kv_size(SizeOfU32, SizeOfRawFd, map)
    IN  IF ~IsOk(kv) THEN kv
        ELSE IF ~IsOk(fd_or_err(map)) THEN fd_or_err(map)
        ELSE Ok(None)

XskMapLen(map) == map.max_entries

XskMapSet(map, table, index, value, flags, io_fail) ==
    LET upd == bpf_map_update_elem(table, index, [sock |-> value], io_fail)
    IN  IF ~IsOk(check_bounds(map, index))
        THEN [res |-> check_bounds(map, index), sys |-> None, table |-> table]
        ELSE IF ~IsOk(fd_or_err(map))
        THEN [res |-> fd_or_err(map), sys |-> None, table |-> table]
        ELSE [res |-> SetFinish(upd.res),
              sys |-> Syscall("bpf_map_update_elem", index, SizeOfRawFd, <<value>>, flags),
              table |-> upd.table]

\* ------------------------------------------------------------------- state
MapDatas ==
    [kind : {"DevMap", "XskMap"}, key_size : Sizes, value_size : Sizes,
     max_entries : 0..MaxEntries, fd : {None, Some(3)}]

Init ==
    /\ FEATURES \in [devmap_prog_id : BOOLEAN, cpumap_prog_id : BOOLEAN]
    /\ data \in MapDatas
    /\ accessor = "none"
    /\ ktable = [i \in 0..(data.max_entries - 1) |-> None]
    /\ iter = None
    /\ last = Call("none", 0, 0, <<>>, Ok(None), None)
    /\ lastSet = [i \in 0..(data.max_entries - 1) |-> None]
    /\ pc = [c \in Callers |-> "idle"]
    /\ pending = [c \in Callers |-> None]
    /\ seen = [c \in Callers |-> {}]

conc == <<pc, pending, seen>>

\* --------------------------------------------------------------- operations
New ==
    /\ accessor = "none"
    /\ data.kind = "DevMap"
    /\ accessor' = IF IsOk(DevMapNew(data)) THEN "DevMap" ELSE "none"
    /\ last' = Call("new", 0, 0, <<>>, DevMapNew(data), None)
    /\ UNCHANGED <<FEATURES, data, ktable, iter, lastSet, conc>>

XskNew ==
    /\ accessor = "none"
    /\ data.kind = "XskMap"
    /\ accessor' = IF IsOk(XskMapNew(data)) THEN "XskMap" ELSE "none"
    /\ last' = Call("new", 0, 0, <<>>, XskMapNew(data), None)
    /\ UNCHANGED <<FEATURES, data, ktable, iter, lastSet, conc>>

LenOp ==
    /\ accessor = "DevMap"
    /\ last' = Call("len", 0, 0, <<>>, Ok(DevMapLen(data)), None)
    /\ UNCHANGED <<FEATURES, data, accessor, ktable, iter, lastSet, conc>>

XskLenOp ==
    /\ accessor = "XskMap"
    /\ last' = Call("len", 0, 0, <<>>, Ok(XskMapLen(data)), None)
    /\ UNCHANGED <<FEATURES, data, accessor, ktable, iter, lastSet, conc>>

Get ==
    /\ accessor = "DevMap"
    /\ \E index \in Indices, flags \in FlagValues, io_fail \in BOOLEAN :
         LET out == DevMapGet(data, ktable, index, flags, io_fail)
         IN  last' = Call("get", index, flags, <<>>, out.res, out.sys)
    /\ UNCHANGED <<FEATURES, data, accessor, ktable, iter, lastSet, conc>>

Set ==
    /\ accessor = "DevMap"
    /\ \E index \in Indices, ifindex \in IfIndices, program \in Programs,
          flags \in FlagValues, io_fail \in BOOLEAN :
         LET out == DevMapSet(data, ktable, index, ifindex, program, flags, io_fail)
         IN  /\ last' = Call("set", index, flags, <<ifindex, program>>, out.res, out.sys)
             /\ ktable' = out.table
             /\ lastSet' = IF IsOk(out.res)
                           THEN [lastSet EXCEPT ![index] = Some(<<ifindex, program>>)]
                           ELSE lastSet
    /\ UNCHANGED <<FEATURES, data, accessor, iter, conc>>

XskSet ==
    /\ accessor = "XskMap"
    /\ \E index \in Indices, value \in RawFds, flags \in FlagValues, io_fail \in BOOLEAN :
         LET out == XskMapSet(data, ktable, index, value, flags, io_fail)
         IN  /\ last' = Call("set", index, flags, <<value>>, out.res, out.sys)
             /\ ktable' = out.table
             /\ lastSet' = IF IsOk(out.res)
                           THEN [lastSet EXCEPT ![index] = Some(<<value>>)]
                           ELSE lastSet
    /\ UNCHANGED <<FEATURES, data, accessor, iter, conc>>

\* iter(): builds the lazy sequence; nothing is looked up yet.
IterStart ==
    /\ accessor = "DevMap"
    /\ iter' = Some(IterRange(data))
    /\ last' = Call("iter", 0, 0, <<>>, Ok(None), None)
    /\ UNCHANGED <<FEATURES, data, accessor, ktable, lastSet, conc>>

\* next() on the sequence: get(i, 0) for the next index, or the end.
IterNext ==
    /\ iter # None
    /\ \E io_fail \in BOOLEAN :
         LET r == iter[1]
             out == DevMapGet(data, ktable, r.start, 0, io_fail)
         IN  IF r.start < r.end
             THEN /\ last' = Call("iter_next", r.start, 0, <<>>, out.res, out.sys)
                  /\ iter' = Some([r EXCEPT !.start = r.start + 1])
             ELSE /\ last' = Call("iter_end", r.start, 0, <<>>, Ok(None), None)
                  /\ iter' = iter
    /\ UNCHANGED <<FEATURES, data, accessor, ktable, lastSet, conc>>

Next == New \/ XskNew \/ LenOp \/ XskLenOp \/ Get \/ Set \/ XskSet \/ IterStart \/ IterNext

Spec == Init /\ [][Next]_vars

\* ------------------------------------------- two callers on the same table
\* A call that reaches its syscall is in flight between the *Call step (the
\* checks and the encoding, local to the caller) and the *Syscall step (the
\* kernel's atomic lookup or update, then the decoding and the return).
state == <<FEATURES, data, accessor, iter>>

CGetCall(c) ==
    /\ accessor = "DevMap" /\ pc[c] = "idle"
    /\ \E index \in Indices, flags \in FlagValues :
         LET prep == GetPrepare(data, index)
         IN  IF ~IsOk(prep.res)
             THEN /\ last' = Call("get", index, flags, <<>>, prep.res, None)
                  /\ UNCHANGED conc
             ELSE /\ pc' = [pc EXCEPT ![c] = "lookup"]
                  /\ pending' = [pending EXCEPT ![c] =
                        Some([sys |-> Syscall("bpf_map_lookup_elem", index, prep.size,
                                              <<>>, flags),
                              arg |-> <<>>])]
                  /\ seen' = [seen EXCEPT ![c] = {ktable[index]}]
                  /\ UNCHANGED last
    /\ UNCHANGED <<state, ktable, lastSet>>

CGetSyscall(c) ==
    /\ pc[c] = "lookup"
    /\ \E io_fail \in BOOLEAN :
         LET sys == pending[c][1].sys[1]
             looked == bpf_map_lookup_elem(data, ktable, sys.key, sys.buf, io_fail)
         IN  last' = Call("get", sys.key, sys.flags, <<>>, GetFinish(sys.buf, looked),
                          pending[c][1].sys)
    /\ pc' = [pc EXCEPT ![c] = "idle"]
    /\ pending' = [pending EXCEPT ![c] = None]
    /\ seen' = [seen EXCEPT ![c] = {}]
    /\ UNCHANGED <<state, ktable, lastSet>>

CSetCall(c) ==
    /\ accessor = "DevMap" /\ pc[c] = "idle"
    /\ \E index \in Indices, ifindex \in IfIndices, program \in Programs,
          flags \in FlagValues :
         LET prep == SetPrepare(data, index, ifindex, program)
         IN  IF ~IsOk(prep.res)
             THEN /\ last' = Call("set", index, flags, <<ifindex, program>>, prep.res, None)
                  /\ UNCHANGED conc
             ELSE /\ pc' = [pc EXCEPT ![c] = "update"]
                  /\ pending' = [pending EXCEPT ![c] =
                        Some([sys |-> Syscall("bpf_map_update_elem", index,
                                              Len(prep.value) * SizeOfU32, prep.value, flags),
                              arg |-> <<ifindex, program>>])]
                  /\ UNCHANGED <<last, seen>>
    /\ UNCHANGED <<state, ktable, lastSet>>

CSetSyscall(c) ==
    /\ pc[c] = "update"
    /\ \E io_fail \in BOOLEAN :
         LET sys == pending[c][1].sys[1]
             arg == pending[c][1].arg
             upd == bpf_map_update_elem(ktable, sys.key, KernelEntry(sys.value), io_fail)
         IN  /\ last' = Call("set", sys.key, sys.flags, arg, SetFinish(upd.res),
                             pending[c][1].sys)
             /\ ktable' = upd.table
             /\ lastSet' = IF IsOk(upd.res)
                           THEN [lastSet EXCEPT ![sys.key] = Some(arg)]
                           ELSE lastSet
             /\ seen' = [o \in Callers |->
                           IF o # c /\ pc[o] = "lookup" /\ pending[o][1].sys[1].key = sys.key
                           THEN seen[o] \cup {upd.table[sys.key]}
                           ELSE seen[o]]
    /\ pc' = [pc EXCEPT ![c] = "idle"]
    /\ pending' = [pending EXCEPT ![c] = None]
    /\ UNCHANGED state

ConcNext ==
    \/ New
    \/ \E c \in Callers : CGetCall(c)
    \/ \E c \in Callers : CGetSyscall(c)
    \/ \E c \in Callers : CSetCall(c)
    \/ \E c \in Callers : CSetSyscall(c)

SpecConc == Init /\ [][ConcNext]_vars

\* -------------------------------------------------------------- properties
InRange(index) == index < data.max_entries
IsGet == accessor = "DevMap" /\ last.op \in {"get", "iter_next"}
IsDevSet == accessor = "DevMap" /\ last.op = "set"
IsXskSet == accessor = "XskMap" /\ last.op = "set"
ExpectedValueSize ==
    IF data.kind = "DevMap" /\ FEATURES.devmap_prog_id THEN SizeOfDevmapVal ELSE SizeOfU32
\* The entry a successful set(index, ifindex, program, _) leaves in the table.
EntryOfSet(args) ==
    [ifindex |-> args[1],
     prog_id |-> IF args[2] = None THEN 0 ELSE KernelProgId(args[2][1])]

\* C1: get and set on DevMap and set on XskMap with index >= max_entries
\* return OutOfBounds and issue no syscall, whatever the capability flags,
\* the flags argument and the program argument are.
C1_OutOfBoundsNoSyscall ==
    (last.op \in {"get", "set"} /\ ~InRange(last.index))
        => (IsErr(last.res, "OutOfBounds") /\ last.sys = None)

C1_Witness ==
    /\ IsDevSet /\ ~InRange(last.index) /\ last.arg[2] # None
    /\ IsErr(last.res, "OutOfBounds")

\* C2: get looks up and decodes the layout selected by the same capability
\* flag that new validated and set encodes with (devmap_prog_id): 4 bytes and
\* prog_id 0 when it is false, the extended 8-byte layout when it is true.
C2_GetUsesDevmapFlag ==
    (IsGet /\ last.sys # None)
        => /\ last.sys[1].buf = ExpectedValueSize
           /\ last.sys[1].buf = data.value_size

\* C3: under the extended capability, after a successful set(index, d, None, 0)
\* the next get(index, 0) whose lookup is not refused by the transport returns
\* Ok(ifindex = d, prog_id = 0); the absent program is written as descriptor 0.
C3_RoundTripNoProgram ==
    /\ (IsGet /\ FEATURES.devmap_prog_id /\ InRange(last.index) /\ last.flags = 0
           /\ lastSet[last.index] # None
           /\ lastSet[last.index][1][2] = None
           /\ ~IsErr(last.res, "SyscallError"))
          => (IsOk(last.res) /\ last.res.val = DevMapValue(lastSet[last.index][1][1], 0))
    /\ (IsDevSet /\ FEATURES.devmap_prog_id /\ last.sys # None /\ last.arg[2] = None)
          => last.sys[1].value = <<last.arg[1], 0>>

C3_Witness ==
    /\ IsGet /\ FEATURES.devmap_prog_id /\ InRange(last.index) /\ last.flags = 0
    /\ lastSet[last.index] # None
    /\ lastSet[last.index][1][2] = None
    /\ IsOk(last.res)

\* C4: on a legacy-only kernel, set(index, d, Some(program), flags) with
\* index < max_entries returns ProgIdNotSupported, issues no update syscall and
\* leaves the table unchanged.
C4_State ==
    (IsDevSet /\ ~FEATURES.devmap_prog_id /\ InRange(last.index) /\ last.arg[2] # None)
        => (IsErr(last.res, "ProgIdNotSupported") /\ last.sys = None)

C4_LegacyRejectsProgram ==
    /\ []C4_State
    /\ [][(last'.op = "set" /\ last'.res.tag = "Err" /\ last'.res.val = "ProgIdNotSupported")
            => ktable' = ktable]_vars

C4_Witness ==
    /\ IsDevSet /\ ~FEATURES.devmap_prog_id /\ InRange(last.index) /\ last.arg[2] # None
    /\ \E i \in DOMAIN ktable : ktable[i] # None

\* C8: under the extended capability, after a successful
\* set(index, d, Some(program), 0) the next get(index, 0) returns ifindex = d
\* and the identifier the kernel assigned, as delivered by the lookup, which
\* is not the descriptor written.
C8_ProgIdFromLookup ==
    (IsGet /\ FEATURES.devmap_prog_id /\ InRange(last.index) /\ last.flags = 0
        /\ lastSet[last.index] # None
        /\ lastSet[last.index][1][2] # None
        /\ ~IsErr(last.res, "SyscallError"))
       => /\ IsOk(last.res)
          /\ last.res.val = EntryOfSet(lastSet[last.index][1])
          /\ last.res.val.prog_id # lastSet[last.index][1][2][1]

\* C5: iter() yields exactly len() results, in increasing index order from 0,
\* each the result of a get(i, 0) made when the element is requested: Ok(entry)
\* for a populated index, Err(KeyNotFound) for an absent one; an error does not
\* stop or shorten the iteration.
C5_Element ==
    LET i == iter[1].start
    IN  /\ iter # None /\ i < DevMapLen(data)
        /\ last'.index = i /\ last'.flags = 0
        /\ iter' = Some([iter[1] EXCEPT !.start = i + 1])
        /\ (last.op = "iter" => i = 0)
        /\ \E io_fail \in BOOLEAN :
              /\ last'.res = DevMapGet(data, ktable, i, 0, io_fail).res
              /\ last'.sys = DevMapGet(data, ktable, i, 0, io_fail).sys
        /\ last'.res.tag = "Err" => last'.res.val \in {"KeyNotFound", "SyscallError"}
        /\ (ktable[i] = None /\ last'.sys # None)
              => (last'.res.tag = "Err" /\ last'.res.val \in {"KeyNotFound", "SyscallError"})
        /\ (ktable[i] # None /\ last'.sys # None)
              => (last'.res.tag = "Ok" \/ last'.res.val = "SyscallError")

C5_IterYieldsLenGets ==
    /\ [][last'.op = "iter_next" => C5_Element]_vars
    /\ [][last'.op = "iter_end" => (iter # None /\ iter[1].start = DevMapLen(data))]_vars
    /\ [][(last.op = "iter" /\ last'.op = "iter_end") => DevMapLen(data) = 0]_vars

C5_Witness ==
    /\ last.op = "iter_end" /\ data.max_entries = MaxEntries
    /\ \E i, j \in DOMAIN ktable : ktable[i] = None /\ ktable[j] # None

\* C6: len() equals max_entries, which no call changes, and issues no syscall;
\* over a table of capacity 0 iter() ends at once with no element and get and
\* set fail with OutOfBounds for every index.
C6_State ==
    /\ last.op = "len" => (last.res = Ok(data.max_entries) /\ last.sys = None)
    /\ iter # None => (iter[1].end = data.max_entries /\ iter[1].start <= iter[1].end)
    /\ data.max_entries = 0 =>
          /\ last.op # "iter_next"
          /\ last.op \in {"get", "set"} => IsErr(last.res, "OutOfBounds")

C6_LenIsMaxEntries ==
    /\ []C6_State
    /\ [][data' = data]_vars

C6_Witness ==
    data.max_entries = 0 /\ last.op = "iter_end" /\ accessor = "DevMap"

\* C7: new fails with a shape mismatch, before any syscall, whenever the
\* declared key size is not 4 or the declared value size is not the one the
\* accessor expects (DevMap: 8 under the extended capability, 4 under the
\* legacy one; XskMap: 4); no accessor exists over a mismatched table.
ShapeMatches == data.key_size = SizeOfU32 /\ data.value_size = ExpectedValueSize

C7_ShapeChecked ==
    /\ accessor # "none" => ShapeMatches
    /\ (last.op = "new" /\ ~ShapeMatches)
          => (IsErr(last.res, "ShapeMismatch") /\ last.sys = None /\ accessor = "none")
    /\ accessor = "none" => (last.sys = None /\ \A i \in DOMAIN ktable : ktable[i] = None)

C7_Witness ==
    /\ last.op = "new" /\ data.kind = "DevMap" /\ data.key_size = SizeOfU32
    /\ data.value_size # ExpectedValueSize /\ data.fd # None
    /\ IsErr(last.res, "ShapeMismatch")

\* C10: a set that returns OutOfBounds, handle unavailable or
\* ProgIdNotSupported leaves every entry unchanged; a successful set(index, ..)
\* changes only the entry at index; get, len and iter change no entry; the
\* bounds check comes first, so an out-of-range index with a program on a
\* legacy kernel reports OutOfBounds.
C10_Step ==
    /\ ktable' # ktable =>
          /\ last'.op = "set" /\ last'.res.tag = "Ok"
          /\ \A j \in DOMAIN ktable : j # last'.index => ktable'[j] = ktable[j]
    /\ (last'.op = "set" /\ last'.res.tag = "Err") => ktable' = ktable
    /\ DOMAIN ktable' = DOMAIN ktable

C10_State ==
    /\ (last.op = "set" /\ ~InRange(last.index)) => IsErr(last.res, "OutOfBounds")
    /\ (last.op = "set" /\ last.res.tag = "Err")
          => last.res.val \in {"OutOfBounds", "HandleUnavailable", "ProgIdNotSupported",
                               "SyscallError"}
    /\ (last.op = "set" /\ last.res.tag = "Err" /\ last.res.val # "SyscallError")
          => last.sys = None

C10_FrameAndOrder == []C10_State /\ [][C10_Step]_vars

C10_Witness ==
    /\ IsDevSet /\ ~FEATURES.devmap_prog_id /\ ~InRange(last.index)
    /\ last.arg[2] # None /\ IsErr(last.res, "OutOfBounds")
    /\ \E i \in DOMAIN ktable : ktable[i] # None

\* C9: with two callers setting concurrently, in every interleaving of their
\* update syscalls each entry is the value of the last successful set to its
\* index, and a set changes no other index; a get running concurrently returns
\* a value the entry held between its call and its return (the value before
\* or after a concurrent set), never any other value.
C9_LastSetWins ==
    \A i \in DOMAIN ktable :
        /\ lastSet[i] = None => ktable[i] = None
        /\ lastSet[i] # None => ktable[i] = Some(EntryOfSet(lastSet[i][1]))

C9_GetReturn(c) ==
    (pc[c] = "lookup" /\ pc'[c] = "idle" /\ last'.res # Err("SyscallError"))
        => IF last'.res.tag = "Ok" THEN Some(last'.res.val) \in seen[c] ELSE None \in seen[c]

C9_SetStep(c) ==
    (pc[c] = "update" /\ pc'[c] = "idle")
        => \A j \in DOMAIN ktable : j # pending[c][1].sys[1].key => ktable'[j] = ktable[j]

C9_ConcurrentCalls ==
    /\ []C9_LastSetWins
    /\ [][\A c \in Callers : C9_GetReturn(c) /\ C9_SetStep(c)]_vars

====
